---- MODULE Spec2Model ----
(***************************************************************************)
(* SeedUp command-line entry point (src/main.py): one run of main().       *)
(* The torrent engine, the Drive uploader, google.colab and the file       *)
(* system are external; each call into them is a step whose outcome (a     *)
(* returned value or a raised exception) is chosen nondeterministically.   *)
(***************************************************************************)
EXTENDS Integers, Sequences, FiniteSets, TLC

VARIABLES pc, args, colab, mounted, calls, returned, downloaded_path,
          path_exists, results, printed, raised, caught, exit_code

vars == <<pc, args, colab, mounted, calls, returned, downloaded_path,
          path_exists, results, printed, raised, caught, exit_code>>

\* ------------------------------------------------------------------ bounds
\* longest 'failed' / 'uploaded' list an upload result carries in the model
MaxItems == 2

\* ------------------------------------------------------------ Python values
\* the None object (distinct from every string the model uses)
None == "<None>"

\* bool(v) for v a str or None: None and "" are falsy
Truthy(v) == v # None /\ v # ""

\* bool(l) for l a list
TruthyList(l) == Len(l) > 0

\* str.startswith on strings kept as sequences of characters
StartsWith(s, prefix) ==
    /\ Len(s) >= Len(prefix)
    /\ SubSeq(s, 1, Len(prefix)) = prefix

\* the literal "/content/drive" of handle_download
MountRoot == <<"/","c","o","n","t","e","n","t","/","d","r","i","v","e">>

\* ------------------------------------------------------- exception classes
\* the part of Python's class hierarchy the except clauses distinguish
Parent(cls) ==
    CASE cls = "ImportError"       -> "Exception"
      [] cls = "Exception"         -> "BaseException"
      [] cls = "KeyboardInterrupt" -> "BaseException"
      [] cls = "SystemExit"        -> "BaseException"
      [] OTHER                     -> "object"

\* isinstance(e, cls) for e of exact class kind
IsInstance(kind, cls) ==
    \/ kind = cls
    \/ Parent(kind) = cls
    \/ Parent(Parent(kind)) = cls

\* what a call into external code may raise
Raisable == {"Exception", "KeyboardInterrupt", "SystemExit"}

\* ------------------------------------------------------------------ inputs
Destinations ==
    { MountRoot \o <<"/","M","y">>,      \* /content/drive/My
      MountRoot,                         \* /content/drive
      MountRoot \o <<"2">>,              \* /content/drive2
      <<"/","c","o","n","t","e","n","t">>,
      <<"/","t","m","p">> }

Torrents == {"magnet:?xt=abc"}
FolderIds == {None, "", "abc123"}
LocalPaths == {"/missing/path", "/tmp/out"}
DownloadReturns == {None, "", "/tmp/out/file.iso"}

ItemLists == UNION {[1..n -> {"f"}] : n \in 0..MaxItems}
UploadReturns == [failed : ItemLists, uploaded : ItemLists]

NoArgs == [command |-> None, torrent |-> None, destination |-> <<>>,
           no_resume |-> FALSE, upload |-> FALSE, folder_id |-> None,
           no_skip |-> FALSE, path |-> None]

DownloadArgs ==
    {[NoArgs EXCEPT !.command = "download", !.torrent = t, !.destination = d,
                    !.no_resume = nr, !.upload = u, !.folder_id = f,
                    !.no_skip = ns] :
        t \in Torrents, d \in Destinations, nr \in BOOLEAN, u \in BOOLEAN,
        f \in FolderIds, ns \in BOOLEAN}

UploadArgs ==
    {[NoArgs EXCEPT !.command = "upload", !.path = p, !.folder_id = f,
                    !.no_skip = ns] :
        p \in LocalPaths, f \in FolderIds \ {None}, ns \in BOOLEAN}

ParsedArgs ==
    DownloadArgs \cup UploadArgs
      \cup {[NoArgs EXCEPT !.command = c] : c \in {"status", "clear", None}}

\* exit_code before main has returned
NoExit == -1

\* ----------------------------------------------------------- decision code
\* handle_download: "if args.upload and not args.folder_id"
FolderIdMissing_Mut(a) == a.upload /\ a.folder_id = None
FolderIdMissing(a) == a.upload /\ ~Truthy(a.folder_id)

\* handle_download: "if args.destination.startswith('/content/drive')"
DestinationInDrive(a) == StartsWith(a.destination, MountRoot)

\* handle_download: "if not downloaded_path"
DownloadFailed_Mut(p) == p = None
DownloadFailed(p) == ~Truthy(p)

\* arguments of the download_torrent call
DownloadCallArgs(a) ==
    [torrent |-> a.torrent, download_path |-> a.destination,
     auto_resume |-> ~a.no_resume]

\* arguments of the upload_to_google_drive call
UploadCallArgs_Mut(p, a) ==
    [path |-> p, folder_id |-> a.folder_id, skip_existing |-> a.no_skip]
UploadCallArgs(p, a) ==
    [path |-> p, folder_id |-> a.folder_id, skip_existing |-> ~a.no_skip]

\* "if results.get('failed'): return 1", else 0
UploadExitCode_Mut(r) == IF TruthyList(r.failed) /\ ~TruthyList(r.uploaded) THEN 1 ELSE 0
UploadExitCode(r) == IF TruthyList(r.failed) THEN 1 ELSE 0

\* the handlers' "except Exception as e: ... return 1"
HandlerCatches_Mut(kind) == IsInstance(kind, "BaseException")
HandlerCatches(kind) == IsInstance(kind, "Exception")

\* main's except clauses: which one takes an exception of class kind
MainClause_Mut(kind) ==
    IF IsInstance(kind, "Exception") THEN "main_exc" ELSE "escaped"
MainClause(kind) ==
    IF IsInstance(kind, "KeyboardInterrupt") THEN "main_ki"
    ELSE IF IsInstance(kind, "Exception") THEN "main_exc"
    ELSE "escaped"

\* the value main returns from the clause
MainExitCode(clause) ==
    CASE clause = "main_ki"  -> 130
      [] clause = "main_exc" -> 1
      [] OTHER               -> NoExit

\* handle_status: returns 0 on both branches
StatusExitCode_Mut(found) == IF found THEN 0 ELSE 1
StatusExitCode(found) == 0

\* handle_status: the line printed (without its leading mark)
StatusMessage(found) ==
    IF found THEN "Found paused download session"
    ELSE "No paused download session found"

\* handle_clear
ClearExitCode_Mut(ok) == 0
ClearExitCode(ok) == IF ok THEN 0 ELSE 1

\* handle_clear: the line printed (without its leading mark)
ClearMessage(ok) ==
    IF ok THEN "Download session cleared" ELSE "Failed to clear session"

\* handle_upload: "if not os.path.exists(args.path): return 1"
PathMissing_Mut(exists) == FALSE
PathMissing(exists) == ~exists

\* handle_upload's statement order: mount, then the path check, then the try
UploadStepAfter_Mut(step) ==
    CASE step = "entry"     -> "up_exists"
      [] step = "up_exists" -> "up_mount"
      [] step = "up_mount"  -> "up_get_uploader"
UploadStepAfter(step) ==
    CASE step = "entry"     -> "up_mount"
      [] step = "up_mount"  -> "up_exists"
      [] step = "up_exists" -> "up_get_uploader"

\* handle_download's statement after a Mount Helper call
DownloadStepAfter(step) ==
    CASE step = "dl_mount1" -> "dl_check"
      [] step = "dl_mount2" -> "dl_get_uploader"

\* ------------------------------------------------------------ control flow
Call(fn, a) == [fn |-> fn, args |-> a]

\* a handler executes "return code"
Return(code) ==
    /\ pc' = "done"
    /\ exit_code' = code

\* an exception of class kind is raised at the current statement;
\* inTry: the statement is inside the handler's try block
Raise(kind, inTry) ==
    /\ raised' = kind
    /\ IF inTry /\ HandlerCatches(kind)
       THEN /\ caught' = "handler"
            /\ Return(1)
       ELSE /\ caught' = MainClause(kind)
            /\ Return(MainExitCode(MainClause(kind)))

Init ==
    /\ pc = "parse"
    /\ args = NoArgs
    /\ colab \in BOOLEAN
    /\ mounted \in BOOLEAN
    /\ calls = <<>>
    /\ returned = {}
    /\ downloaded_path = None
    /\ path_exists = None
    /\ results = None
    /\ printed = None
    /\ raised = "none"
    /\ caught = "none"
    /\ exit_code = NoExit

\* parse_arguments: a usage error leaves through argparse's SystemExit
parse_arguments ==
    /\ pc = "parse"
    /\ \/ /\ \E a \in ParsedArgs : args' = a
          /\ pc' = "main"
          /\ UNCHANGED <<raised, caught, exit_code>>
       \/ /\ raised' = "SystemExit"
          /\ caught' = "escaped"
          /\ pc' = "done"
          /\ UNCHANGED <<args, exit_code>>
    /\ UNCHANGED <<colab, mounted, calls, returned, downloaded_path,
                   path_exists, results, printed>>

\* main: "if not args.command: return 1", else dispatch
main ==
    /\ pc = "main"
    /\ IF args.command = None
       THEN Return(1)
       ELSE /\ pc' = CASE args.command = "download" ->
                            IF DestinationInDrive(args) THEN "dl_mount1" ELSE "dl_check"
                        [] args.command = "upload" -> UploadStepAfter("entry")
                        [] args.command = "status" -> "status"
                        [] args.command = "clear" -> "clear"
            /\ UNCHANGED exit_code
    /\ UNCHANGED <<args, colab, mounted, calls, returned, downloaded_path,
                   path_exists, results, printed, raised, caught>>

\* ensure_drive_mounted, called from handle_download (twice) or handle_upload
ensure_drive_mounted ==
    /\ pc \in {"dl_mount1", "dl_mount2", "up_mount"}
    /\ calls' = Append(calls, Call("ensure_drive_mounted", <<>>))
    /\ LET next == IF pc = "up_mount" THEN UploadStepAfter(pc)
                   ELSE DownloadStepAfter(pc)
       IN  IF colab /\ ~mounted
           THEN \/ /\ mounted' = TRUE
                   /\ pc' = next
                   /\ returned' = returned \cup {"ensure_drive_mounted"}
                   /\ UNCHANGED <<raised, caught, exit_code>>
                \/ /\ \E kind \in Raisable : Raise(kind, FALSE)
                   /\ UNCHANGED <<mounted, returned>>
           ELSE /\ pc' = next
                /\ returned' = returned \cup {"ensure_drive_mounted"}
                /\ UNCHANGED <<mounted, raised, caught, exit_code>>
    /\ UNCHANGED <<args, colab, downloaded_path, path_exists, results, printed>>

\* handle_download: the --upload / --folder-id check
download_check ==
    /\ pc = "dl_check"
    /\ IF FolderIdMissing(args)
       THEN Return(1)
       ELSE pc' = "dl_download" /\ UNCHANGED exit_code
    /\ UNCHANGED <<args, colab, mounted, calls, returned, downloaded_path,
                   path_exists, results, printed, raised, caught>>

\* handle_download: download_torrent(...) and the test of its result
download_torrent ==
    /\ pc = "dl_download"
    /\ calls' = Append(calls, Call("download_torrent", DownloadCallArgs(args)))
    /\ \/ \E p \in DownloadReturns :
            /\ downloaded_path' = p
            /\ returned' = returned \cup {"download_torrent"}
            /\ IF DownloadFailed(p) THEN Return(1)
               ELSE IF args.upload THEN pc' = "dl_mount2" /\ UNCHANGED exit_code
               ELSE Return(0)
            /\ UNCHANGED <<raised, caught>>
       \/ /\ \E kind \in Raisable : Raise(kind, FALSE)
          /\ UNCHANGED <<downloaded_path, returned>>
    /\ UNCHANGED <<args, colab, mounted, path_exists, results, printed>>

\* handle_upload: os.path.exists(args.path)
path_check ==
    /\ pc = "up_exists"
    /\ \E e \in BOOLEAN :
         /\ path_exists' = e
         /\ IF PathMissing(e) THEN Return(1)
            ELSE pc' = UploadStepAfter(pc) /\ UNCHANGED exit_code
    /\ returned' = returned \cup {"os.path.exists"}
    /\ UNCHANGED <<args, colab, mounted, calls, downloaded_path, results,
                   printed, raised, caught>>

\* get_uploader(), inside the try block of either handler
get_uploader ==
    /\ pc \in {"dl_get_uploader", "up_get_uploader"}
    /\ calls' = Append(calls, Call("get_uploader", <<>>))
    /\ \/ /\ pc' = IF pc = "dl_get_uploader" THEN "dl_upload" ELSE "up_upload"
          /\ returned' = returned \cup {"get_uploader"}
          /\ UNCHANGED <<raised, caught, exit_code>>
       \/ /\ \E kind \in Raisable \cup {"ImportError"} : Raise(kind, TRUE)
          /\ UNCHANGED returned
    /\ UNCHANGED <<args, colab, mounted, downloaded_path, path_exists, results,
                   printed>>

\* upload_to_google_drive(...), inside the try block of either handler
upload_to_google_drive ==
    /\ pc \in {"dl_upload", "up_upload"}
    /\ LET p == IF pc = "dl_upload" THEN downloaded_path ELSE args.path
       IN  calls' = Append(calls, Call("upload_to_google_drive", UploadCallArgs(p, args)))
    /\ \/ \E r \in UploadReturns :
            /\ results' = r
            /\ returned' = returned \cup {"upload_to_google_drive"}
            /\ Return(UploadExitCode(r))
            /\ UNCHANGED <<raised, caught>>
       \/ /\ \E kind \in Raisable : Raise(kind, TRUE)
          /\ UNCHANGED <<results, returned>>
    /\ UNCHANGED <<args, colab, mounted, downloaded_path, path_exists, printed>>

\* handle_status
handle_status ==
    /\ pc = "status"
    /\ calls' = Append(calls, Call("get_download_status", <<>>))
    /\ \/ \E found \in BOOLEAN :
            /\ results' = found
            /\ returned' = returned \cup {"get_download_status"}
            /\ printed' = StatusMessage(found)
            /\ Return(StatusExitCode(found))
            /\ UNCHANGED <<raised, caught>>
       \/ /\ \E kind \in Raisable : Raise(kind, FALSE)
          /\ UNCHANGED <<results, returned, printed>>
    /\ UNCHANGED <<args, colab, mounted, downloaded_path, path_exists>>

\* handle_clear
handle_clear ==
    /\ pc = "clear"
    /\ calls' = Append(calls, Call("clear_session", <<>>))
    /\ \/ \E ok \in BOOLEAN :
            /\ results' = ok
            /\ returned' = returned \cup {"clear_session"}
            /\ printed' = ClearMessage(ok)
            /\ Return(ClearExitCode(ok))
            /\ UNCHANGED <<raised, caught>>
       \/ /\ \E kind \in Raisable : Raise(kind, FALSE)
          /\ UNCHANGED <<results, returned, printed>>
    /\ UNCHANGED <<args, colab, mounted, downloaded_path, path_exists>>

Next ==
    \/ parse_arguments
    \/ main
    \/ ensure_drive_mounted
    \/ download_check
    \/ download_torrent
    \/ path_check
    \/ get_uploader
    \/ upload_to_google_drive
    \/ handle_status
    \/ handle_clear

Spec == Init /\ [][Next]_vars

\* ------------------------------------------------------------ vocabulary
Done == pc = "done"

IsDownload == args.command = "download"
IsUpload == args.command = "upload"

\* indices of the calls of fn, in call order
CallsOf(fn) == {i \in 1..Len(calls) : calls[i].fn = fn}

Called(fn) == CallsOf(fn) # {}

\* fn was the last external call made and it raised
RaisedIn(fn) ==
    /\ raised # "none"
    /\ Len(calls) > 0
    /\ calls[Len(calls)].fn = fn

\* the exception of the run came out of the upload step (get_uploader or
\* the upload call)
RaisedInUploadStep ==
    RaisedIn("get_uploader") \/ RaisedIn("upload_to_google_drive")

\* ------------------------------------------------------------------ C1
\* download --upload with no (or empty) --folder-id
C1_Case == IsDownload /\ args.upload /\ ~Truthy(args.folder_id)

\* C1 as stated: a download --upload run without a folder id always ends
\* with exit code 1 and calls neither the upload nor the download
\* collaborator, whatever the source, destination and other flags.
C1_Original ==
    C1_Case =>
        /\ ~Called("upload_to_google_drive")
        /\ ~Called("download_torrent")
        /\ Done => exit_code = 1

\* C1 amended: in a download --upload run without a folder id neither the
\* download nor the upload collaborator is ever called, and the run ends
\* with exit code 1 unless the Mount Helper, which runs before the check when
\* the destination starts with /content/drive, is aborted by an exception
\* that is not an Exception: a cancellation there ends the run with 130 and
\* a SystemExit leaves main.
C1_FailFast ==
    C1_Case =>
        /\ ~Called("upload_to_google_drive")
        /\ ~Called("get_uploader")
        /\ ~Called("download_torrent")
        /\ Done =>
             \/ exit_code = 1
             \/ /\ RaisedIn("ensure_drive_mounted")
                /\ DestinationInDrive(args)
                /\ \/ raised = "KeyboardInterrupt" /\ exit_code = 130
                   \/ raised = "SystemExit" /\ caught = "escaped"

\* the check has rejected a run whose destination is in Drive and whose
\* folder id is the empty string, after the Mount Helper returned
C1_Witness ==
    /\ C1_Case /\ Done /\ exit_code = 1
    /\ args.folder_id = ""
    /\ DestinationInDrive(args)
    /\ "ensure_drive_mounted" \in returned

\* ------------------------------------------------------------------ C2
\* C2: once download_torrent has returned an empty/falsy value the run is
\* over with exit code 1, download_torrent is the last external call made
\* (no second Mount Helper call, no get_uploader, no upload call), for every
\* --upload, --folder-id and --no-skip.
C2_EmptyDownloadFails ==
    ("download_torrent" \in returned /\ ~Truthy(downloaded_path)) =>
        /\ Done
        /\ exit_code = 1
        /\ calls[Len(calls)].fn = "download_torrent"
        /\ ~Called("upload_to_google_drive")
        /\ ~Called("get_uploader")

\* an empty string came back although an upload with a folder id was asked for
C2_Witness ==
    /\ "download_torrent" \in returned
    /\ downloaded_path = ""
    /\ args.upload /\ Truthy(args.folder_id)
    /\ Done /\ exit_code = 1

\* ------------------------------------------------------------------ C3
\* C3: in both handlers, once the upload collaborator has returned a result
\* the run ends with exit code 1 if the result's 'failed' list is non-empty
\* and 0 if it is empty, whatever else the result holds.
C3_ExitFollowsFailed ==
    "upload_to_google_drive" \in returned =>
        /\ Done
        /\ Len(results.failed) > 0 => exit_code = 1
        /\ Len(results.failed) = 0 => exit_code = 0

\* download --upload: some items uploaded, some failed, exit code 1
C3_Witness ==
    /\ IsDownload
    /\ "upload_to_google_drive" \in returned
    /\ Len(results.failed) > 0 /\ Len(results.uploaded) > 0
    /\ exit_code = 1

\* ------------------------------------------------------------------ C4
\* C4 as stated: whatever exception get_uploader or the upload collaborator
\* raises, the run ends with exit code 1 and nothing leaves main.
C4_Original ==
    RaisedInUploadStep => (exit_code = 1 /\ caught # "escaped")

\* C4 amended: an exception raised by get_uploader or by the upload
\* collaborator that is an instance of Exception is caught by the handler
\* and the run ends with exit code 1; a KeyboardInterrupt raised there is
\* not caught by the handler and main ends the run with 130; any other
\* exception that is not an Exception (SystemExit) leaves main.
C4_UploadExceptions ==
    RaisedInUploadStep =>
        /\ Done
        /\ IsInstance(raised, "Exception") =>
              (caught = "handler" /\ exit_code = 1)
        /\ raised = "KeyboardInterrupt" =>
              (caught = "main_ki" /\ exit_code = 130)
        /\ raised = "SystemExit" =>
              (caught = "escaped" /\ exit_code = NoExit)

\* the upload call of the upload command raised an Exception and the
\* handler turned it into exit code 1
C4_Witness ==
    /\ IsUpload
    /\ RaisedIn("upload_to_google_drive")
    /\ raised = "Exception"
    /\ caught = "handler" /\ exit_code = 1

\* ------------------------------------------------------------------ C5
\* a command was parsed and the run is over
C5_Case == Done /\ args.command # None

\* C5 as stated: with a command parsed no exception leaves main: a
\* cancellation gives 130, every other exception 1, and the run ends with an
\* exit code in {0, 1, 130}.
C5_Original ==
    C5_Case =>
        /\ caught # "escaped"
        /\ exit_code \in {0, 1, 130}
        /\ raised = "KeyboardInterrupt" => exit_code = 130
        /\ (raised # "none" /\ raised # "KeyboardInterrupt") => exit_code = 1

\* C5 amended: with a command parsed, a cancellation raised by any call of
\* any handler gives 130 and every exception that is an instance of
\* Exception gives 1 (from the handler or from main); the run ends with an
\* exit code in {0, 1, 130} unless an exception that is neither (SystemExit)
\* was raised, which leaves main.
C5_Backstop ==
    C5_Case =>
        /\ raised = "KeyboardInterrupt" => exit_code = 130
        /\ IsInstance(raised, "Exception") => exit_code = 1
        /\ raised # "SystemExit" =>
              (caught # "escaped" /\ exit_code \in {0, 1, 130})
        /\ raised = "SystemExit" => caught = "escaped"

\* a cancellation inside the download collaborator ended the run with 130
C5_Witness ==
    /\ C5_Case
    /\ RaisedIn("download_torrent")
    /\ raised = "KeyboardInterrupt"
    /\ exit_code = 130

C7_ClearMirrors ==
    /\ Cardinality(CallsOf("clear_session")) <= 1
    /\ (Done /\ args.command = "clear") =>
          Cardinality(CallsOf("clear_session")) = 1
    /\ "clear_session" \in returned =>
          /\ Done
          /\ results = TRUE => exit_code = 0
          /\ results = FALSE => exit_code = 1

\* clear_session returned false and the run ended with exit code 1
C7_Witness ==
    /\ "clear_session" \in returned
    /\ results = FALSE
    /\ exit_code = 1
    /\ Cardinality(CallsOf("clear_session")) = 1

C9_Original ==
    (IsUpload /\ Called("ensure_drive_mounted")) =>
        ("os.path.exists" \in returned /\ path_exists = TRUE)

\* C9 amended: handle_upload calls the Mount Helper, then validates the
\* path, then calls the upload collaborator: the path is checked only after
\* the Mount Helper has been called and has returned, so a run with a
\* missing path has called the Mount Helper exactly once; get_uploader and
\* the upload collaborator are called only after the path was found to exist.
C9_UploadOrder ==
    IsUpload =>
        /\ "os.path.exists" \in returned =>
              /\ Len(calls) >= 1
              /\ calls[1].fn = "ensure_drive_mounted"
              /\ "ensure_drive_mounted" \in returned
              /\ Cardinality(CallsOf("ensure_drive_mounted")) = 1
        /\ (Called("get_uploader") \/ Called("upload_to_google_drive")) =>
              ("os.path.exists" \in returned /\ path_exists = TRUE)
        /\ \A i \in CallsOf("upload_to_google_drive") :
              \E j \in CallsOf("get_uploader") : j < i

\* a missing path was rejected after the Mount Helper had been called
C9_Witness ==
    /\ IsUpload /\ Done
    /\ "os.path.exists" \in returned /\ path_exists = FALSE
    /\ calls = <<Call("ensure_drive_mounted", <<>>)>>

\* ----------------------------------------------------------------- C10
\* C10: in a download run the upload collaborator is called at most once,
\* only with --upload and a folder id, only after download_torrent returned
\* a non-empty path and after a Mount Helper call that follows the download;
\* its arguments are the returned path, the folder id and
\* skip_existing = not --no-skip; download_torrent is called with the
\* source, the destination and auto_resume = not --no-resume.
C10_UploadAfterDownload ==
    IsDownload =>
        /\ Cardinality(CallsOf("upload_to_google_drive")) <= 1
        /\ \A i \in CallsOf("upload_to_google_drive") :
              /\ args.upload /\ Truthy(args.folder_id)
              /\ "download_torrent" \in returned /\ Truthy(downloaded_path)
              /\ \E j \in CallsOf("download_torrent") :
                   \E k \in CallsOf("ensure_drive_mounted") : j < k /\ k < i
              /\ calls[i].args = [path |-> downloaded_path,
                                  folder_id |-> args.folder_id,
                                  skip_existing |-> ~args.no_skip]
        /\ \A j \in CallsOf("download_torrent") :
              calls[j].args = [torrent |-> args.torrent,
                               download_path |-> args.destination,
                               auto_resume |-> ~args.no_resume]

\* download --upload --no-skip --no-resume reached the upload call
C10_Witness ==
    /\ IsDownload /\ Done
    /\ args.no_skip /\ args.no_resume
    /\ Called("upload_to_google_drive")
    /\ exit_code = 0

====
